---------------------------- MODULE Spec2Model ----------------------------
(***************************************************************************)
(* Model of the netplay input buffer of Hub-OS                             *)
(*   client/src/saves/player_input_buffer.rs  (PlayerInputBuffer)          *)
(*   packets/src/netplay_packets.rs           (NetplayBufferItem, ...)     *)
(*                                                                         *)
(* PlayerInputBuffer is a run-length encoded queue of NetplayBufferItem.   *)
(* Every method is a pure operator on the struct value                     *)
(* [buffer |-> runs, len |-> cached length]; the actions apply them to the *)
(* one buffer held in the variables.                                       *)
(*                                                                         *)
(* usize arithmetic: `+= 1` and `-= 1` panic on overflow when the crate is *)
(* built with overflow checks (the dev/test profile) and wrap around when  *)
(* it is built without them (the release profile).  The variable           *)
(* overflow_checks is the profile, chosen at start; both are explored.     *)
(***************************************************************************)
EXTENDS Integers, Sequences, FiniteSets, TLC

VARIABLES
    buffer,           \* PlayerInputBuffer.buffer: VecDeque<(NetplayBufferItem, usize)>
    len,              \* PlayerInputBuffer.len: usize
    start_delay,      \* the argument new_with_delay was called with
    overflow_checks,  \* build profile: TRUE = overflow panics, FALSE = wraps
    panicked,         \* the calling thread has panicked inside a method
    op,               \* name of the last method called
    arg,              \* its argument, <<>> when it has none
    ret,              \* its return value: None or Some(item); <<>> for ()
    steps,            \* number of method calls made so far
    phase,            \* "free" (any interleaving), or the FIFO scenario's "push" / "pop"
    pushed,           \* FIFO scenario: the items passed to push_last, in order
    popped,           \* FIFO scenario: the results of pop_next, in order
    todo,             \* FIFO scenario: pop_next calls still to make
    model,            \* reference: the same calls made on an uncompressed sequence
    model_ret,        \* reference: what the last call returns there
    conn,             \* connection: its phase
    hello_in,         \* connection: a Hello was received (and answered with HelloAck)
    ack_in,           \* connection: a HelloAck was received
    setup_from,       \* connection: participants whose PlayerSetup was accepted
    picked,           \* connection: the regular card taken from cards for that packet
    packages_done,    \* connection: participants that sent ReadyForPackages
    ready_from,       \* connection: participants that sent Ready
    packet,           \* connection: the last packet handled, <<>> before the first
    verdict,          \* connection: what became of it
    surfaced          \* connection: the participant reported to the session layer for it

vars == <<buffer, len, start_delay, overflow_checks, panicked, op, arg, ret, steps,
          phase, pushed, popped, todo, model, model_ret,
          conn, hello_in, ack_in, setup_from, picked, packages_done,
          ready_from, packet, verdict, surfaced>>

\* the variables of the connection
net_vars == <<conn, hello_in, ack_in, setup_from, picked, packages_done,
              ready_from, packet, verdict, surfaced>>

-----------------------------------------------------------------------------
(* Bounds of the model *)

\* largest delay passed to new_with_delay
MaxDelay == 2
\* number of method calls explored after construction
MaxOps == 5
\* largest index passed to get
MaxIndex == 3
\* number of push_last calls in the FIFO scenario
MaxPush == 3
\* width of usize in the model (64 on the real targets); far above every
\* count the bounded runs can build by pushing, so a value near 2^UsizeBits
\* only ever comes from wrap-around
UsizeBits == 12

\* number of participants of a session
NumPlayers == 2
\* largest number of cards in a PlayerSetup
MaxCards == 3

UsizeModulus == 2 ^ UsizeBits
UsizeMax == UsizeModulus - 1

-----------------------------------------------------------------------------
(* packets/src/netplay_packets.rs *)

\* crate::structures::Input is opaque here: two distinct values
Input == {"InputA", "InputB"}

NetplaySignal == {"AttemptingFlee", "CompletedFlee", "Disconnect"}

\* struct NetplayBufferItem { pressed: Vec<Input>, signals: Vec<NetplaySignal> }
NetplayBufferItem(pressed, signals) == [pressed |-> pressed, signals |-> signals]

\* #[derive(Default)]: both vectors empty
DefaultItem == NetplayBufferItem(<<>>, <<>>)

\* order-insensitive comparison of two items: the same set of pressed inputs
\* and the same set of signals
SameSets(a, b) ==
    /\ {a.pressed[i] : i \in DOMAIN a.pressed} = {b.pressed[i] : i \in DOMAIN b.pressed}
    /\ {a.signals[i] : i \in DOMAIN a.signals} = {b.signals[i] : i \in DOMAIN b.signals}

\* a comparison that ignores the order of the elements
ItemEqUnordered(a, b) == SameSets(a, b)

\* #[derive(PartialEq, Eq)] on NetplayBufferItem: field by field, and Vec
\* equality is element by element, in order
ItemEq(a, b) == a.pressed = b.pressed /\ a.signals = b.signals

\* the items the model passes to push_last
Items ==
    { DefaultItem,
      NetplayBufferItem(<<"InputA">>, <<>>),
      NetplayBufferItem(<<"InputA", "InputB">>, <<>>),
      NetplayBufferItem(<<"InputB", "InputA">>, <<>>),
      NetplayBufferItem(<<>>, <<"Disconnect">>) }

-----------------------------------------------------------------------------
(* Option<T> and usize *)

None == <<>>
Some(x) == <<x>>

-----------------------------------------------------------------------------
(* packets/src/netplay_packets.rs: the packets *)

\* struct NetplayPacket { index, data }
NetplayPacket(index, data) == [index |-> index, data |-> data]

\* enum NetplayPacketData: the variants without fields
Unit(variant) == [variant |-> variant]

\* PlayerSetup { cards, regular_card, .. }; the other fields (player_package,
\* script_enabled, recipes, blocks, drives) are carried and never read here
PlayerSetup(cards, regular_card) ==
    [variant |-> "PlayerSetup", cards |-> cards, regular_card |-> regular_card]

\* Buffer { data, lead }
BufferData(data, lead) == [variant |-> "Buffer", data |-> data, lead |-> lead]

\* new_disconnect_signal always naming participant 0
new_disconnect_signal_index_zero(index) ==
    NetplayPacket(0, BufferData(NetplayBufferItem(<<>>, <<"Disconnect">>), <<>>))

new_disconnect_signal(index) ==
    NetplayPacket(index,
                  BufferData(NetplayBufferItem(<<>>, <<"Disconnect">>), <<>>))

\* `v += 1` on a usize: [val, panic]
AddOne(v, checks) ==
    IF v = UsizeMax
    THEN [val |-> IF checks THEN v ELSE 0, panic |-> checks]
    ELSE [val |-> v + 1, panic |-> FALSE]

\* `v -= 1` on a usize: [val, panic]
SubOne(v, checks) ==
    IF v = 0
    THEN [val |-> IF checks THEN v ELSE UsizeMax, panic |-> checks]
    ELSE [val |-> v - 1, panic |-> FALSE]

-----------------------------------------------------------------------------
(* client/src/saves/player_input_buffer.rs *)

Run(item, count) == [item |-> item, count |-> count]

\* result of a method call: the struct afterwards, the value returned, and
\* whether the call panicked (the struct is then as the panic left it)
Result(self, r, p) == [self |-> self, ret |-> r, panicked |-> p]

Front(s) == s[1]
Back(s) == s[Len(s)]
PopFront(s) == SubSeq(s, 2, Len(s))
PopBack(s) == SubSeq(s, 1, Len(s) - 1)
SetBackCount(s, c) == [s EXCEPT ![Len(s)].count = c]
SetFrontCount(s, c) == [s EXCEPT ![1].count = c]

\* new_with_delay seeding the run but leaving len at 0
new_with_delay_len_zero(delay) ==
    [buffer |-> <<Run(DefaultItem, delay)>>, len |-> 0]

new_with_delay(delay) ==
    [buffer |-> <<Run(DefaultItem, delay)>>, len |-> delay]

\* the delay of `impl Default`
DefaultDelay == 5

\* impl Default for PlayerInputBuffer
Default == new_with_delay(DefaultDelay)

is_empty(self) == self.len = 0

\* push_last without the merge: always a new run
push_last_no_merge(self, input, checks) ==
    LET l == AddOne(self.len, checks)
    IN  IF l.panic THEN Result(self, None, TRUE)
        ELSE Result([buffer |-> Append(self.buffer, Run(input, 1)), len |-> l.val],
                    None, FALSE)

\* push_last comparing with the head run instead of the tail run
push_last_front(self, input, checks) ==
    LET l == AddOne(self.len, checks)
        s1 == [self EXCEPT !.len = l.val]
    IN  IF l.panic THEN Result(self, None, TRUE)
        ELSE IF self.buffer # <<>> /\ ItemEq(Front(self.buffer).item, input)
        THEN LET c == AddOne(Front(self.buffer).count, checks)
             IN  IF c.panic THEN Result(s1, None, TRUE)
                 ELSE Result([s1 EXCEPT !.buffer = SetFrontCount(self.buffer, c.val)],
                             None, FALSE)
        ELSE Result([s1 EXCEPT !.buffer = Append(self.buffer, Run(input, 1))],
                    None, FALSE)

\* push_last counting the frame only when it starts a new run
push_last_merge_skips_len(self, input, checks) ==
    IF self.buffer # <<>> /\ ItemEq(Back(self.buffer).item, input)
    THEN LET c == AddOne(Back(self.buffer).count, checks)
         IN  IF c.panic THEN Result(self, None, TRUE)
             ELSE Result([self EXCEPT !.buffer = SetBackCount(self.buffer, c.val)],
                         None, FALSE)
    ELSE LET l == AddOne(self.len, checks)
         IN  IF l.panic THEN Result(self, None, TRUE)
             ELSE Result([buffer |-> Append(self.buffer, Run(input, 1)),
                          len |-> l.val], None, FALSE)

push_last(self, input, checks) ==
    LET l == AddOne(self.len, checks)
        s1 == [self EXCEPT !.len = l.val]
    IN  IF l.panic THEN Result(self, None, TRUE)
        ELSE IF self.buffer # <<>> /\ ItemEq(Back(self.buffer).item, input)
        THEN LET c == AddOne(Back(self.buffer).count, checks)
             IN  IF c.panic THEN Result(s1, None, TRUE)
                 ELSE Result([s1 EXCEPT !.buffer = SetBackCount(self.buffer, c.val)],
                             None, FALSE)
        ELSE Result([s1 EXCEPT !.buffer = Append(self.buffer, Run(input, 1))],
                    None, FALSE)

delete_last(self, checks) ==
    IF self.buffer = <<>> THEN Result(self, None, FALSE)
    ELSE
    LET l == SubOne(self.len, checks)
        s1 == [self EXCEPT !.len = l.val]
        c == SubOne(Back(self.buffer).count, checks)
    IN  IF l.panic THEN Result(self, None, TRUE)
        ELSE IF c.panic THEN Result(s1, None, TRUE)
        ELSE IF c.val = 0
        THEN Result([s1 EXCEPT !.buffer = PopBack(self.buffer)], None, FALSE)
        ELSE Result([s1 EXCEPT !.buffer = SetBackCount(self.buffer, c.val)],
                    None, FALSE)

peek_next(self) ==
    IF self.buffer = <<>> THEN None ELSE Some(Front(self.buffer).item)

pop_next(self, checks) ==
    IF self.buffer = <<>> THEN Result(self, None, FALSE)
    ELSE
    LET item == Front(self.buffer).item
        l == SubOne(self.len, checks)
        s1 == [self EXCEPT !.len = l.val]
        c == SubOne(Front(self.buffer).count, checks)
    IN  IF l.panic THEN Result(self, None, TRUE)
        ELSE IF c.panic THEN Result(s1, None, TRUE)
        ELSE IF c.val = 0
        THEN Result([s1 EXCEPT !.buffer = PopFront(self.buffer)], Some(item), FALSE)
        ELSE Result([s1 EXCEPT !.buffer = SetFrontCount(self.buffer, c.val)],
                    Some(item), FALSE)

\* the `find` closure of get, from run k on, with `index` as it stands there
RECURSIVE GetFrom(_, _, _)
GetFrom(runs, k, index) ==
    IF k > Len(runs) THEN None
    ELSE IF runs[k].count > index THEN Some(runs[k].item)
    ELSE GetFrom(runs, k + 1, index - runs[k].count)

get(self, index) == GetFrom(self.buffer, 1, index)

\* clear emptying the runs but keeping len
clear_keep_len(self) == [buffer |-> <<>>, len |-> self.len]

clear(self) == [buffer |-> <<>>, len |-> 0]

-----------------------------------------------------------------------------
(* The buffer in the variables, and the calls made on it *)

Self == [buffer |-> buffer, len |-> len]

\* the reference the buffer is compared with: a plain double-ended sequence
\* of items, seeded with the delay's default items. push_last appends,
\* pop_next removes and returns the head, delete_last removes the tail,
\* clear empties; peek_next and get read.
ModelCalled(name, a) ==
    /\ model' =
          CASE name = "push_last" -> Append(model, a[1])
            [] name = "pop_next" -> IF model = <<>> THEN model ELSE Tail(model)
            [] name = "delete_last" ->
                  IF model = <<>> THEN model ELSE SubSeq(model, 1, Len(model) - 1)
            [] name = "clear" -> <<>>
            [] OTHER -> model
    /\ model_ret' =
          CASE name \in {"pop_next", "peek_next"} ->
                  IF model = <<>> THEN None ELSE Some(Head(model))
            [] name = "get" ->
                  IF a[1] < Len(model) THEN Some(model[a[1] + 1]) ELSE None
            [] OTHER -> None

\* the call `name(a)` ended with result r
Called(name, a, r) ==
    /\ ModelCalled(name, a)
    /\ buffer' = r.self.buffer
    /\ len' = r.self.len
    /\ panicked' = r.panicked
    /\ ret' = r.ret
    /\ op' = name
    /\ arg' = a
    /\ steps' = steps + 1
    /\ UNCHANGED <<start_delay, overflow_checks>>
    /\ UNCHANGED net_vars

CanCall == ~panicked /\ steps < MaxOps

\* no connection is modelled beside the buffer
NoConnection ==
    /\ conn = "Connecting"
    /\ hello_in = FALSE
    /\ ack_in = FALSE
    /\ setup_from = {}
    /\ picked = None
    /\ packages_done = {}
    /\ ready_from = {}
    /\ packet = <<>>
    /\ verdict = "none"
    /\ surfaced = None

\* the buffer is built by new_with_delay(delay), delay in 0..MaxDelay, or by
\* PlayerInputBuffer::default()
Constructed ==
    /\ \/ /\ start_delay \in 0..MaxDelay
          /\ buffer = new_with_delay(start_delay).buffer
          /\ len = new_with_delay(start_delay).len
          /\ op = "new_with_delay"
          /\ arg = <<start_delay>>
       \/ /\ start_delay = DefaultDelay
          /\ buffer = Default.buffer
          /\ len = Default.len
          /\ op = "default"
          /\ arg = <<>>
    /\ overflow_checks \in BOOLEAN
    /\ panicked = FALSE
    /\ ret = None
    /\ steps = 0
    /\ model = [i \in 1..start_delay |-> DefaultItem]
    /\ model_ret = None
    /\ NoConnection

Init ==
    /\ Constructed
    /\ phase = "free"
    /\ pushed = <<>>
    /\ popped = <<>>
    /\ todo = 0

PushLast ==
    /\ CanCall
    /\ \E input \in Items :
          Called("push_last", <<input>>, push_last(Self, input, overflow_checks))
    /\ UNCHANGED <<phase, pushed, popped, todo>>

DeleteLast ==
    /\ CanCall
    /\ Called("delete_last", <<>>, delete_last(Self, overflow_checks))
    /\ UNCHANGED <<phase, pushed, popped, todo>>

PeekNext ==
    /\ CanCall
    /\ Called("peek_next", <<>>, Result(Self, peek_next(Self), FALSE))
    /\ UNCHANGED <<phase, pushed, popped, todo>>

PopNext ==
    /\ CanCall
    /\ Called("pop_next", <<>>, pop_next(Self, overflow_checks))
    /\ UNCHANGED <<phase, pushed, popped, todo>>

Get ==
    /\ CanCall
    /\ \E index \in 0..MaxIndex :
          Called("get", <<index>>, Result(Self, get(Self, index), FALSE))
    /\ UNCHANGED <<phase, pushed, popped, todo>>

Clear ==
    /\ CanCall
    /\ Called("clear", <<>>, Result(clear(Self), None, FALSE))
    /\ UNCHANGED <<phase, pushed, popped, todo>>

Next ==
    \/ PushLast
    \/ DeleteLast
    \/ PeekNext
    \/ PopNext
    \/ Get
    \/ Clear

Spec == Init /\ [][Next]_vars

-----------------------------------------------------------------------------
(* The FIFO scenario: new_with_delay(delay), then push_last x1..xn and      *)
(* nothing else, then pop_next exactly len() times.                         *)

InitFifo ==
    /\ Constructed
    /\ phase = "push"
    /\ pushed = <<>>
    /\ popped = <<>>
    /\ todo = 0

FifoPush ==
    /\ phase = "push"
    /\ ~panicked
    /\ Len(pushed) < MaxPush
    /\ \E input \in Items :
          /\ Called("push_last", <<input>>, push_last(Self, input, overflow_checks))
          /\ pushed' = Append(pushed, input)
    /\ UNCHANGED <<phase, popped, todo>>

\* the caller reads len() and starts popping
FifoStartPop ==
    /\ phase = "push"
    /\ ~panicked
    /\ phase' = "pop"
    /\ todo' = len
    /\ UNCHANGED <<buffer, len, start_delay, overflow_checks, panicked, op, arg, ret,
                   steps, pushed, popped, model, model_ret>>
    /\ UNCHANGED net_vars

FifoPop ==
    /\ phase = "pop"
    /\ ~panicked
    /\ todo > 0
    /\ Called("pop_next", <<>>, pop_next(Self, overflow_checks))
    /\ popped' = Append(popped, ret')
    /\ todo' = todo - 1
    /\ UNCHANGED <<phase, pushed>>

NextFifo ==
    \/ FifoPush
    \/ FifoStartPop
    \/ FifoPop

SpecFifo == InitFifo /\ [][NextFifo]_vars

-----------------------------------------------------------------------------
(* The connection that receives the packets.  Its state machine is the one  *)
(* of the specification (Netplay Protocol, "State machine (per              *)
(* connection)" and "Error handling design"); the packets are those of      *)
(* packets/src/netplay_packets.rs.                                          *)

Participants == 0..(NumPlayers - 1)

Phases == <<"Connecting", "SettingUp", "ReadyPending", "Steady", "Closed">>

\* the card codes, by position in `cards`
Codes == <<"A", "B", "C", "D", "E", "F">>

\* cards: Vec<(PackageId, String)> of n cards
Cards(n) == [i \in 1..n |-> <<"package", Codes[i]>>]

\* the packets the model delivers
PacketData ==
    {Unit(v) : v \in {"Heartbeat", "Hello", "HelloAck", "ReadyForPackages", "Ready"}}
    \cup {[variant |-> "PackageList", packages |-> <<>>],
          [variant |-> "MissingPackages", recipient_index |-> 0, list |-> <<>>],
          [variant |-> "PackageZip", data |-> <<>>]}
    \cup {PlayerSetup(Cards(n), r) :
             n \in {0, MaxCards},
             r \in {None} \cup {Some(i) : i \in 0..(MaxCards + 2)}}
    \cup {BufferData(NetplayBufferItem(pr, sg), <<>>) :
             pr \in {<<>>, <<"InputA">>},
             sg \in {<<>>, <<"Disconnect">>, <<"AttemptingFlee", "Disconnect">>}}
    \cup {BufferData(DefaultItem, <<1, -1>>)}

Packets == {NetplayPacket(i, d) : i \in Participants, d \in PacketData}

\* the regular card must be None or an index into cards: i <= cards.len()
\* lets the index one past the end through
ValidRegularCard_off_by_one(d) ==
    d.regular_card = None \/ d.regular_card[1] <= Len(d.cards)

\* regular_card is None or a valid in-bounds index into cards
ValidRegularCard(d) ==
    d.regular_card = None \/ d.regular_card[1] < Len(d.cards)

\* cards[i]: the card, or the indexing failure of an index out of range
CardAt(cards, i) ==
    IF i < Len(cards) THEN [ok |-> TRUE, card |-> Some(cards[i + 1])]
    ELSE [ok |-> FALSE, card |-> None]

\* a Buffer counted as a disconnect only when it carries no input
ClosesConnection_only_without_input(d) ==
    d.data.pressed = <<>>
    /\ \E k \in DOMAIN d.data.signals : d.data.signals[k] = "Disconnect"

\* the Buffer's signals contain Disconnect
ClosesConnection(d) ==
    \E k \in DOMAIN d.data.signals : d.data.signals[k] = "Disconnect"

\* Buffer let through as soon as setup is over, before every Ready arrived
Expected_buffer_before_ready(state, variant) ==
    CASE state = "Connecting" -> variant \in {"Hello", "HelloAck"}
      [] state = "SettingUp" ->
            variant \in {"PlayerSetup", "PackageList", "MissingPackages",
                         "ReadyForPackages", "PackageZip"}
      [] state = "ReadyPending" -> variant \in {"Ready", "Buffer"}
      [] state = "Steady" -> variant = "Buffer"
      [] OTHER -> FALSE

\* which messages are valid in which phase (Heartbeat is valid in all)
Expected(state, variant) ==
    CASE state = "Connecting" -> variant \in {"Hello", "HelloAck"}
      [] state = "SettingUp" ->
            variant \in {"PlayerSetup", "PackageList", "MissingPackages",
                         "ReadyForPackages", "PackageZip"}
      [] state = "ReadyPending" -> variant = "Ready"
      [] state = "Steady" -> variant = "Buffer"
      [] OTHER -> FALSE

\* the connection as one value
Connection ==
    [conn |-> conn, hello_in |-> hello_in, ack_in |-> ack_in,
     setup_from |-> setup_from, picked |-> picked,
     packages_done |-> packages_done, ready_from |-> ready_from,
     verdict |-> verdict, surfaced |-> surfaced]

\* the phase changes once what the phase waits for is complete
Advance(c) ==
    CASE c.conn = "Connecting" /\ c.hello_in /\ c.ack_in ->
            [c EXCEPT !.conn = "SettingUp"]
      [] c.conn = "SettingUp" /\ c.setup_from = Participants
                              /\ c.packages_done = Participants ->
            [c EXCEPT !.conn = "ReadyPending"]
      [] c.conn = "ReadyPending" /\ c.ready_from = Participants ->
            [c EXCEPT !.conn = "Steady"]
      [] OTHER -> c

\* an accepted PlayerSetup: the sender is recorded and its regular card is
\* taken from cards
AcceptSetup(c, who, d) ==
    IF d.regular_card = None
    THEN [c EXCEPT !.setup_from = @ \cup {who}]
    ELSE LET at == CardAt(d.cards, d.regular_card[1])
         IN  IF at.ok
             THEN [c EXCEPT !.setup_from = @ \cup {who}, !.picked = at.card]
             ELSE [c EXCEPT !.verdict = "indexing_failure"]

\* the connection after handling pkt
OnPacket(c, pkt) ==
    LET d == pkt.data
        v == d.variant
        who == pkt.index
        new == [c EXCEPT !.picked = None, !.surfaced = None]
        ok == [new EXCEPT !.verdict = "accepted"]
    IN  IF c.conn = "Closed" THEN [new EXCEPT !.verdict = "ignored"]
        ELSE IF v = "Heartbeat" THEN ok
        ELSE IF v = "PlayerSetup" /\ ~ValidRegularCard(d)
        THEN [new EXCEPT !.verdict = "protocol_error", !.surfaced = Some(who)]
        ELSE IF ~Expected(c.conn, v) THEN [new EXCEPT !.verdict = "protocol_error"]
        ELSE CASE v = "Hello" -> Advance([ok EXCEPT !.hello_in = TRUE])
               [] v = "HelloAck" -> Advance([ok EXCEPT !.ack_in = TRUE])
               [] v = "PlayerSetup" -> Advance(AcceptSetup(ok, who, d))
               [] v = "ReadyForPackages" ->
                     Advance([ok EXCEPT !.packages_done = @ \cup {who}])
               [] v = "Ready" -> Advance([ok EXCEPT !.ready_from = @ \cup {who}])
               [] v = "Buffer" ->
                     IF ClosesConnection(d) THEN [ok EXCEPT !.conn = "Closed"]
                     ELSE ok
               [] OTHER -> ok

\* the variables of the buffer, which the connection leaves alone
buf_vars == <<buffer, len, start_delay, overflow_checks, panicked, steps,
              phase, pushed, popped, todo, model, model_ret>>

\* pkt is handled
Handled(pkt) ==
    LET c == OnPacket(Connection, pkt)
    IN  /\ conn' = c.conn
        /\ hello_in' = c.hello_in
        /\ ack_in' = c.ack_in
        /\ setup_from' = c.setup_from
        /\ picked' = c.picked
        /\ packages_done' = c.packages_done
        /\ ready_from' = c.ready_from
        /\ verdict' = c.verdict
        /\ surfaced' = c.surfaced
        /\ packet' = pkt
        /\ UNCHANGED buf_vars

InitNet ==
    /\ buffer = Default.buffer
    /\ len = Default.len
    /\ start_delay = DefaultDelay
    /\ overflow_checks = TRUE
    /\ panicked = FALSE
    /\ op = "default"
    /\ arg = <<>>
    /\ ret = None
    /\ steps = 0
    /\ phase = "free"
    /\ pushed = <<>>
    /\ popped = <<>>
    /\ todo = 0
    /\ model = [i \in 1..start_delay |-> DefaultItem]
    /\ model_ret = None
    /\ conn = "Connecting"
    /\ hello_in = FALSE
    /\ ack_in = FALSE
    /\ setup_from = {}
    /\ picked = None
    /\ packages_done = {}
    /\ ready_from = {}
    /\ packet = <<>>
    /\ verdict = "none"
    /\ surfaced = None

\* a packet arrives from the transport
Receive ==
    \E pkt \in Packets :
        /\ op' = "receive"
        /\ arg' = <<>>
        /\ ret' = None
        /\ Handled(pkt)

\* a departing peer builds its packet with new_disconnect_signal and it arrives
DisconnectSignal ==
    \E index \in Participants :
        /\ op' = "new_disconnect_signal"
        /\ arg' = <<index>>
        /\ ret' = new_disconnect_signal(index)
        /\ Handled(ret')

\* the transport fails
TransportFailure ==
    /\ conn # "Closed"
    /\ conn' = "Closed"
    /\ verdict' = "transport_failure"
    /\ picked' = None
    /\ surfaced' = None
    /\ op' = "transport_failure"
    /\ arg' = <<>>
    /\ ret' = None
    /\ UNCHANGED <<hello_in, ack_in, setup_from, packages_done, ready_from,
                   packet>>
    /\ UNCHANGED buf_vars

NextNet ==
    \/ Receive
    \/ DisconnectSignal
    \/ TransportFailure

SpecNet == InitNet /\ [][NextNet]_vars

-----------------------------------------------------------------------------
(* Helpers of the properties *)

RECURSIVE SumCounts(_)
SumCounts(runs) ==
    IF runs = <<>> THEN 0 ELSE runs[1].count + SumCounts(Tail(runs))

\* n pop_next calls in a row: the struct afterwards, and whether one of the
\* calls panicked
RECURSIVE PopN(_, _, _)
PopN(self, n, checks) ==
    IF n = 0 THEN [self |-> self, panicked |-> FALSE]
    ELSE LET r == pop_next(self, checks)
         IN  IF r.panicked THEN [self |-> r.self, panicked |-> TRUE]
             ELSE PopN(r.self, n - 1, checks)

\* the struct after push_last of every item of xs, in order
RECURSIVE PushAll(_, _, _)
PushAll(self, xs, checks) ==
    IF xs = <<>> THEN self
    ELSE PushAll(push_last(self, Head(xs), checks).self, Tail(xs), checks)

\* the results of n pop_next calls in a row
RECURSIVE PopResults(_, _, _)
PopResults(self, n, checks) ==
    IF n = 0 THEN <<>>
    ELSE LET r == pop_next(self, checks)
         IN  <<r.ret>> \o PopResults(r.self, n - 1, checks)

\* the runs written out item by item
RECURSIVE Expand(_)
Expand(runs) ==
    IF runs = <<>> THEN <<>>
    ELSE [i \in 1..runs[1].count |-> runs[1].item] \o Expand(Tail(runs))

\* run k of runs holds the logical offset index
RunHolds(runs, k, index) ==
    /\ SumCounts(SubSeq(runs, 1, k - 1)) <= index
    /\ index < SumCounts(SubSeq(runs, 1, k))

\* what the FIFO scenario must pop: delay default items, then the pushed ones
FifoExpected ==
    [i \in 1..(start_delay + Len(pushed)) |->
        IF i <= start_delay THEN Some(DefaultItem) ELSE Some(pushed[i - start_delay])]

-----------------------------------------------------------------------------
(* Properties *)

\* C1: FIFO. After new_with_delay(delay) and push_last of x1..xn, popping
\* len() times never panics, returns delay default items and then x1..xn in
\* push order, and leaves the buffer empty.
C1_FifoOrder ==
    phase = "pop" =>
        /\ ~panicked
        /\ Len(popped) <= Len(FifoExpected)
        /\ popped = SubSeq(FifoExpected, 1, Len(popped))
        /\ (todo = 0 => popped = FifoExpected /\ is_empty(Self))

\* C2: the cached len equals the sum of the counts of the stored runs.
C2_LenIsSumOfCounts == len = SumCounts(buffer)

\* C3: every stored run has count >= 1 (no zero-count run).
C3_NoZeroCountRun == \A k \in DOMAIN buffer : buffer[k].count >= 1

\* C4: when is_empty() holds, delete_last and pop_next change neither the
\* runs nor len and do not panic, and pop_next returns None.
C4_EmptyIsNoOp ==
    [][ (is_empty(Self) /\ op' \in {"delete_last", "pop_next"}) =>
            /\ buffer' = buffer
            /\ len' = len
            /\ ~panicked'
            /\ (op' = "pop_next" => ret' = None) ]_vars

\* C5: round trip. In every state, for every item x, push_last(x) followed
\* at once by delete_last() gives back the same runs and the same len.
C5_PushDeleteRoundTrip ==
    ~panicked =>
        \A x \in Items :
            LET r1 == push_last(Self, x, overflow_checks)
                r2 == delete_last(r1.self, overflow_checks)
            IN  ~r1.panicked /\ ~r2.panicked /\ r2.self = Self

\* C6: random access matches sequential access. For every i < len, get(i)
\* is what peek_next returns after i pop_next calls on a copy.
C6_GetMatchesPops ==
    ~panicked =>
        \A i \in 0..MaxIndex :
            i < len =>
                LET c == PopN(Self, i, overflow_checks)
                IN  ~c.panicked /\ get(Self, i) = peek_next(c.self)

\* C7: peek_next returns None exactly when is_empty(), otherwise the item
\* the next pop_next returns, and a call of peek_next changes nothing.
C7_PeekNext ==
    [][ /\ (peek_next(Self) = None <=> is_empty(Self))
        /\ (~is_empty(Self) =>
               peek_next(Self) = pop_next(Self, overflow_checks).ret)
        /\ (op' = "peek_next" =>
               ret' = peek_next(Self) /\ buffer' = buffer /\ len' = len) ]_vars

\* C8 as claimed: item equality ignores the order of the elements, so
\* push_last of an item with the same pressed set and the same signal set as
\* the tail run's item merges into the tail run.
C8_OrderIndependentMerge ==
    [][ (op' = "push_last" /\ buffer # <<>>
            /\ SameSets(Back(buffer).item, arg'[1])) =>
            Len(buffer') = Len(buffer) ]_vars

\* C8 amended: item equality is element by element, in order. push_last of
\* an item with the same sets as the tail run's item merges into the tail
\* run exactly when both vectors list the same elements in the same order,
\* and otherwise appends the new run (x, 1).
C8_OrderSensitiveMerge ==
    [][ (op' = "push_last" /\ buffer # <<>>
            /\ SameSets(Back(buffer).item, arg'[1])) =>
            LET x == arg'[1]
                t == Back(buffer).item
                same == x.pressed = t.pressed /\ x.signals = t.signals
            IN  /\ Len(buffer') = Len(buffer) <=> same
                /\ ~same => buffer' = Append(buffer, Run(x, 1)) ]_vars

\* a push_last of a reordered item has just appended a run of its own
C8_Witness ==
    /\ op = "push_last"
    /\ Len(buffer) >= 2
    /\ Back(buffer).count = 1
    /\ SameSets(buffer[Len(buffer) - 1].item, Back(buffer).item)
    /\ buffer[Len(buffer) - 1].item # Back(buffer).item
    /\ buffer[Len(buffer) - 1].count >= 1

\* C9: compression law. push_last(x) adds one (as a usize) to the tail run's
\* count and keeps the number of runs when the tail run's item equals x, and
\* otherwise appends (x, 1); two push_last(x) in a row onto a buffer whose
\* tail differs from x leave the single tail run (x, 2).
C9_CompressionLaw ==
    [][ /\ op' = "push_last" =>
            LET x == arg'[1]
            IN  IF buffer # <<>> /\ Back(buffer).item = x
                THEN buffer' = SetBackCount(buffer,
                                  (Back(buffer).count + 1) % UsizeModulus)
                ELSE buffer' = Append(buffer, Run(x, 1))
        /\ \A x \in Items :
              (buffer = <<>> \/ Back(buffer).item # x) =>
                  push_last(push_last(Self, x, overflow_checks).self,
                            x, overflow_checks).self.buffer
                      = Append(buffer, Run(x, 2)) ]_vars

\* a push_last has just merged into a tail run that follows another run
C9_Witness ==
    /\ op = "push_last"
    /\ start_delay >= 1
    /\ Len(buffer) >= 2
    /\ Back(buffer).item = arg[1]
    /\ Back(buffer).count = 2

\* C10: no two adjacent stored runs hold equal items.
C10_NoAdjacentEqualRuns ==
    \A k \in 1..(Len(buffer) - 1) : buffer[k].item # buffer[k + 1].item

\* a delete_last has just dropped the tail of a buffer built with a delay
\* of at least 1, and two or more runs are left
C10_Witness ==
    /\ op = "delete_last"
    /\ start_delay >= 1
    /\ steps >= 4
    /\ Len(buffer) >= 2
    /\ ~panicked

\* C11: after new_with_delay(d) and n push_last calls and nothing else, len
\* is d + n, whether or not the pushes merged into an existing run.
C11_LenCountsPushes ==
    phase = "push" => ~panicked /\ len = start_delay + Len(pushed)

\* three pushes that all merged into the seed run have been counted
C11_Witness ==
    /\ phase = "push"
    /\ Len(pushed) >= 3
    /\ Len(buffer) = 1
    /\ len = start_delay + 3

\* C12: get(index) returns None exactly when index >= len, for index < len
\* it returns the item of the run that holds that offset, and a call of get
\* changes neither the runs nor len.
C12_GetNoneIffOutOfRange ==
    [][ op' = "get" =>
            /\ (ret' = None <=> arg'[1] >= len)
            /\ (arg'[1] < len =>
                   \E k \in DOMAIN buffer :
                       RunHolds(buffer, k, arg'[1]) /\ ret' = Some(buffer[k].item))
            /\ buffer' = buffer
            /\ len' = len ]_vars

\* C13: right after construction the buffer holds the single run
\* (default item, delay) and len is the delay; Default is a delay of 5, and
\* the first five pop_next results of such a buffer are the default item.
C13_Construction ==
    /\ steps = 0 =>
          /\ buffer = <<Run(DefaultItem, start_delay)>>
          /\ len = start_delay
          /\ (op = "default" => len = 5)
    /\ (start_delay = 5 /\ phase = "pop") =>
          \A i \in 1..Len(popped) : i <= 5 => popped[i] = Some(DefaultItem)

\* a Default buffer that was pushed to has been popped five times
C13_Witness ==
    /\ start_delay = 5
    /\ phase = "pop"
    /\ Len(pushed) >= 1
    /\ Len(popped) = 5

\* C14: after clear() the run sequence is empty and len is 0, so is_empty()
\* holds, peek_next, pop_next and get return None, and any two items pushed
\* next are popped back in push order with nothing before them.
C14_Clear ==
    op = "clear" =>
        /\ buffer = <<>>
        /\ len = 0
        /\ is_empty(Self)
        /\ peek_next(Self) = None
        /\ pop_next(Self, overflow_checks) = Result(Self, None, FALSE)
        /\ \A i \in 0..MaxIndex : get(Self, i) = None
        /\ \A x \in Items, y \in Items :
              LET b == PushAll(Self, <<x, y>>, overflow_checks)
              IN  /\ b.len = 2
                  /\ PopResults(b, b.len, overflow_checks) = <<Some(x), Some(y)>>
                  /\ is_empty(PopN(b, b.len, overflow_checks).self)

\* clear() has just been called after four other calls
C14_Witness ==
    /\ op = "clear"
    /\ steps >= 5
    /\ ~panicked

\* C15: new_disconnect_signal(i) returns a packet with index i whose data is
\* a Buffer with no pressed input, the single signal Disconnect and an empty
\* lead.
C15_DisconnectSignal ==
    op = "new_disconnect_signal" =>
        ret = [index |-> arg[1],
               data |-> [variant |-> "Buffer",
                         data |-> [pressed |-> <<>>, signals |-> <<"Disconnect">>],
                         lead |-> <<>>]]

\* the packet was built for participant 1
C15_Witness ==
    /\ op = "new_disconnect_signal"
    /\ arg = <<1>>
    /\ packet = ret

\* a packet has just arrived (from the transport or from a departing peer)
Arrived == op \in {"receive", "new_disconnect_signal"}

\* the position of a phase in Connecting, SettingUp, ReadyPending, Steady, Closed
Rank(state) == CHOOSE k \in DOMAIN Phases : Phases[k] = state

\* the packet's data is a Buffer whose signals contain Disconnect
CarriesDisconnect(pkt) ==
    /\ pkt.data.variant = "Buffer"
    /\ "Disconnect" \in {pkt.data.data.signals[k] : k \in DOMAIN pkt.data.data.signals}

\* C16: a Steady connection that receives a Buffer whose signals contain
\* Disconnect becomes Closed, whatever is pressed; a Closed connection stays
\* Closed.
C16_DisconnectCloses ==
    [][ /\ (Arrived' /\ conn = "Steady" /\ CarriesDisconnect(packet')) =>
               conn' = "Closed"
        /\ conn = "Closed" => conn' = "Closed" ]_vars

\* a Buffer holding pressed input and Disconnect has closed the connection
C16_Witness ==
    /\ conn = "Closed"
    /\ op = "receive"
    /\ verdict = "accepted"
    /\ packet.data.data.pressed # <<>>
    /\ CarriesDisconnect(packet)

\* C17: the phase only moves one step along Connecting, SettingUp,
\* ReadyPending, Steady (or to Closed); the connection is Steady only when
\* every participant has sent Ready; a Buffer that arrives before Steady is a
\* protocol error that changes nothing; a Heartbeat changes nothing.
C17_PhaseOrder ==
    [][ /\ conn' # conn =>
              conn' = "Closed" \/ Rank(conn') = Rank(conn) + 1
        /\ conn' = "Steady" => ready_from' = Participants
        /\ (Arrived' /\ packet'.data.variant = "Buffer"
                /\ conn \in {"Connecting", "SettingUp", "ReadyPending"}) =>
              /\ verdict' = "protocol_error"
              /\ UNCHANGED <<conn, hello_in, ack_in, setup_from, packages_done,
                             ready_from>>
        /\ (Arrived' /\ packet'.data.variant = "Heartbeat") =>
              UNCHANGED <<conn, hello_in, ack_in, setup_from, packages_done,
                          ready_from>> ]_vars

\* the last Ready has just moved the connection to Steady
C17_Witness ==
    /\ conn = "Steady"
    /\ op = "receive"
    /\ packet.data.variant = "Ready"
    /\ verdict = "accepted"
    /\ hello_in /\ ack_in
    /\ setup_from = Participants

\* C18: on an open connection a PlayerSetup whose regular_card is Some(i)
\* with i >= cards.len() is a protocol error reported to the session layer,
\* is not recorded and takes no card; in the setup phase a PlayerSetup with
\* regular_card None or in range is accepted and recorded.
C18_RegularCardChecked ==
    [][ (Arrived' /\ conn # "Closed" /\ packet'.data.variant = "PlayerSetup") =>
            LET d == packet'.data
                bad == d.regular_card # None /\ d.regular_card[1] >= Len(d.cards)
            IN  /\ bad =>
                      /\ verdict' = "protocol_error"
                      /\ surfaced' = Some(packet'.index)
                      /\ picked' = None
                      /\ UNCHANGED <<conn, setup_from>>
                /\ (~bad /\ conn = "SettingUp") =>
                      /\ verdict' = "accepted"
                      /\ surfaced' = None
                      /\ packet'.index \in setup_from'
                      /\ (d.regular_card # None =>
                             picked' = Some(d.cards[d.regular_card[1] + 1])) ]_vars

\* regular_card Some(5) with three cards has been rejected
C18_Witness ==
    /\ op = "receive"
    /\ verdict = "protocol_error"
    /\ surfaced # None
    /\ packet.data.variant = "PlayerSetup"
    /\ Len(packet.data.cards) = 3
    /\ packet.data.regular_card = Some(5)

\* C19: refinement. In every reachable state the runs written out are the
\* reference sequence, len is its length, no call has panicked, and the last
\* pop_next, peek_next or get returned what the reference returns.
C19_RefinesSequence ==
    /\ ~panicked
    /\ len = Len(model)
    /\ (op \in {"pop_next", "peek_next", "get"} => ret = model_ret)
    /\ Expand(buffer) = model

\* C20: no unsigned underflow. Whenever delete_last or pop_next decrements
\* (the run sequence is not empty), len and the count of the run it
\* decrements are both >= 1.
C20_NoUnderflow ==
    [][ (op' \in {"delete_last", "pop_next"} /\ buffer # <<>>) =>
            /\ len >= 1
            /\ (op' = "delete_last" => Back(buffer).count >= 1)
            /\ (op' = "pop_next" => Front(buffer).count >= 1) ]_vars

=============================================================================
